---- MODULE Spec2Model ----
(***************************************************************************)
(* The free-text task segmenter of src/utils/data_merger.py:               *)
(* normalize_text, extract_parentheses_content, split_english_japanese and *)
(* split_tasks, as a state machine that runs one call of split_tasks.      *)
(*                                                                         *)
(* A Python str is a sequence of characters; a character is a TLA+ string. *)
(* An ASCII character stands for itself; a non-ASCII character is written  *)
(* by its code point ("U+4F1A" and "U+8B70" are the two characters of the  *)
(* literal compared with task on line 345).  Offsets into text are 0-based *)
(* as in the source, so the character at offset i is text[i + 1].          *)
(***************************************************************************)
EXTENDS Integers, Sequences, FiniteSets, TLC

VARIABLES
    pc,                   \* position in split_tasks
    cell_value,           \* argument of split_tasks
    user_fields,          \* argument of split_tasks
    text,                 \* normalized text
    i,                    \* loop index of the loop pc names
    stack,                \* extract_parentheses_content: open brackets
    matches,              \* extract_parentheses_content: candidate spans
    top_level_matches,    \* extract_parentheses_content: selected spans
    covered_indices,      \* extract_parentheses_content: covered offsets
    main_text,            \* first result of extract_parentheses_content
    paren_contents,       \* second result of extract_parentheses_content
    main_tasks,
    paren_tasks,
    combined_tasks,
    final_filtered_tasks,
    final_tasks,
    seen_tasks,
    fpc,                  \* position in split_business_content
    df,                   \* the rows of the frame: work content, user fields
    columns,              \* the numbers N of the task columns of the frame
    cells,                \* the cells of the task columns, row by row
    index,                \* the row of the loop of split_business_content
    row_tasks,            \* the task list split_tasks returned, row by row
    mpc,                  \* position in merge_effort_data
    existing_file,        \* the existing file and its rows, or NoFile
    new_data_df,          \* argument of merge_effort_data
    existing_df,          \* merge_effort_data: the existing rows at work
    overlapping,          \* merge_effort_data: year-month pairs to overwrite
    merged_df             \* the result of merge_effort_data

vars == <<pc, cell_value, user_fields, text, i, stack, matches,
          top_level_matches, covered_indices, main_text, paren_contents,
          main_tasks, paren_tasks, combined_tasks, final_filtered_tasks,
          final_tasks, seen_tasks, fpc, df, columns, cells, index, row_tasks,
          mpc, existing_file, new_data_df, existing_df, overlapping,
          merged_df>>

mergeVars == <<mpc, existing_file, new_data_df, existing_df, overlapping,
               merged_df>>

frameVars == <<fpc, df, columns, cells, index, row_tasks>>

----------------------------------------------------------------------------
(* Bounds of the checked inputs *)

MaxLen == 4

MaxWords == 3

MaxRows == 3

MaxMergeRows == 2

----------------------------------------------------------------------------
(* Characters and literals *)

\* the missing value (None / NaN) for which pd.isna is true
NaN == <<"NaN">>

KAIGI == <<"U+4F1A", "U+8B70">>

ESSENTIAL == <<"E", "s", "s", "e", "n", "t", "i", "a", "l">>

NON_ESSENTIAL == <<"N", "o", "n", "-">> \o ESSENTIAL

opening_brackets == {"(", "U+FF08", "U+3010"}

closing_brackets(char) ==
    CASE char = ")" -> "("
      [] char = "U+FF09" -> "U+FF08"
      [] char = "U+3011" -> "U+3010"
      [] OTHER -> "none"

\* characters for which str.strip and the pattern \s hold, among those used
WhitespaceChars == {" ", "\t", "U+3000"}

\* the character class of the pattern of line 271
BracketLikeChars ==
    {"(", ")", "U+FF08", "U+FF09", "[", "]", "U+3010", "U+3011",
     "{", "}", "<", ">", "U+300A", "U+300B"}

\* the character class of punctuation_pattern, line 353
PunctuationChars ==
    {",", "U+3001", ".", "U+3002", "U+FF0E", ":", ";", "'", "\""}

SeparatorCharsNoUnderscore == {" ", "U+3000"}

\* the character class of the pattern of line 319
SeparatorChars == {"_", " ", "U+3000"}

\* unicodedata.normalize('NFKC', .) on one character
NFKC(char) ==
    CASE char = "U+FF08" -> "("
      [] char = "U+FF09" -> ")"
      [] char = "U+3000" -> " "
      [] char = "U+FF0E" -> "."
      [] OTHER -> char

----------------------------------------------------------------------------
(* String primitives *)

SetMin(S) == CHOOSE x \in S : \A y \in S : x <= y

SetMax(S) == CHOOSE x \in S : \A y \in S : x >= y

\* s with its leading and trailing run of characters of chars removed
StripChars(s, chars) ==
    LET keep == {k \in 1..Len(s) : s[k] \notin chars}
    IN  IF keep = {} THEN <<>> ELSE SubSeq(s, SetMin(keep), SetMax(keep))

\* str.strip()
strip(s) == StripChars(s, WhitespaceChars)

\* re.sub(r'\s+', ' ', s)
RECURSIVE CollapseWhitespace(_)
CollapseWhitespace(s) ==
    IF s = <<>> THEN <<>>
    ELSE IF Head(s) \in WhitespaceChars
         THEN IF Len(s) > 1 /\ s[2] \in WhitespaceChars
              THEN CollapseWhitespace(Tail(s))
              ELSE <<" ">> \o CollapseWhitespace(Tail(s))
         ELSE <<Head(s)>> \o CollapseWhitespace(Tail(s))

\* re.split on runs of separators (line 319): the pieces between the runs,
\* the empty pieces at either end included
RECURSIVE ReSplitFrom(_, _, _)
ReSplitFrom(s, k, cur) ==
    IF k > Len(s) THEN <<cur>>
    ELSE IF s[k] \in SeparatorChars
         THEN IF k > 1 /\ s[k - 1] \in SeparatorChars
              THEN ReSplitFrom(s, k + 1, cur)
              ELSE <<cur>> \o ReSplitFrom(s, k + 1, <<>>)
         ELSE ReSplitFrom(s, k + 1, Append(cur, s[k]))

ReSplit(s) == ReSplitFrom(s, 1, <<>>)

\* x in xs, for a Python list xs
InList(x, xs) == \E k \in 1..Len(xs) : xs[k] = x

normalize_text(s) ==
    IF s = NaN THEN <<>> ELSE [k \in 1..Len(s) |-> NFKC(s[k])]

----------------------------------------------------------------------------
(* extract_parentheses_content *)

\* set(range(start, end + 1))
RangeSet(start, end) == start..end

SliceWithBrackets(s, start, end) == SubSeq(s, start + 1, end + 1)

\* text[start + 1 : end]
Slice(s, start, end) == SubSeq(s, start + 2, end)

\* the sort key (x[0], -x[1]) of line 245, compared
KeyLess(a, b) == a[1] < b[1] \/ (a[1] = b[1] /\ -a[2] < -b[2])

\* list.sort(key=...) of line 245: a stable insertion sort
RECURSIVE InsertSorted(_, _)
InsertSorted(x, xs) ==
    IF xs = <<>> THEN <<x>>
    ELSE IF KeyLess(x, Head(xs)) THEN <<x>> \o xs
         ELSE <<Head(xs)>> \o InsertSorted(x, Tail(xs))

SortMatchesMissing(ms) == ms

RECURSIVE SortMatches(_)
SortMatches(ms) ==
    IF ms = <<>> THEN <<>>
    ELSE InsertSorted(ms[Len(ms)], SortMatches(SubSeq(ms, 1, Len(ms) - 1)))

SelectableAlways(start, end, covered) == TRUE

\* whether the span is taken by the greedy selection, line 251
Selectable(start, end, covered) == RangeSet(start, end) \cap covered = {}

\* line 255
RECURSIVE ParenContent(_, _)
ParenContent(s, tops) ==
    IF tops = <<>> THEN <<>>
    ELSE LET content == Slice(s, Head(tops)[1], Head(tops)[2])
         IN  (IF content # <<>> THEN <<content>> ELSE <<>>)
             \o ParenContent(s, Tail(tops))

\* line 256
IndicesToRemove(tops) ==
    UNION {RangeSet(tops[k][1], tops[k][2]) : k \in 1..Len(tops)}

RECURSIVE CleanedBufferJoined(_, _, _, _)
CleanedBufferJoined(s, remove, k, space_added) ==
    IF k >= Len(s) THEN <<>>
    ELSE IF k \notin remove
         THEN <<s[k + 1]>> \o CleanedBufferJoined(s, remove, k + 1, FALSE)
         ELSE CleanedBufferJoined(s, remove, k + 1, space_added)

\* lines 258-267: the loop that builds cleaned_buffer, from offset k on
RECURSIVE CleanedBuffer(_, _, _, _)
CleanedBuffer(s, remove, k, space_added) ==
    IF k >= Len(s) THEN <<>>
    ELSE IF k \notin remove
         THEN <<s[k + 1]>> \o CleanedBuffer(s, remove, k + 1, FALSE)
         ELSE IF ~space_added
              THEN <<" ">> \o CleanedBuffer(s, remove, k + 1, TRUE)
              ELSE CleanedBuffer(s, remove, k + 1, space_added)

\* lines 269-271
CleanedText(s, tops) ==
    LET joined == CleanedBuffer(s, IndicesToRemove(tops), 0, FALSE)
        collapsed == strip(CollapseWhitespace(joined))
    IN  strip(StripChars(collapsed, BracketLikeChars))

----------------------------------------------------------------------------
(* split_english_japanese *)

\* the character class of connectors_pattern, line 302
ConnectorChars ==
    {"-", "/", "U+FF0F", "U+2192", "U+30FB", "U+FF65", ".", "U+FF0E",
     "U+300A", "U+300B", "?", "U+FF1F", "U+21D4", "U+30FC"}

\* the characters of the class of lines 281, 286 and 288, among those used
JapaneseChars == {"U+4F1A", "U+8B70", "U+30FC"}

\* the characters of [A-Za-z], among those used
LatinChars == {"A", "B", "E", "N", "a", "e", "i", "l", "n", "o", "s", "t"}

is_special_mixed_pattern(s) ==
    IF s = <<>> \/ Len(s) < 2 THEN FALSE
    ELSE LET jp_chars == {k \in 1..Len(s) : s[k] \in JapaneseChars}
             en_chars == {k \in 1..Len(s) : s[k] \in LatinChars}
         IN  IF jp_chars = {} \/ en_chars = {} THEN FALSE
             ELSE IF s[1] \in LatinChars /\ s[2] \in JapaneseChars THEN TRUE
             ELSE IF /\ s[Len(s)] \in LatinChars
                     /\ \A k \in 1..(Len(s) - 1) : s[k] \in JapaneseChars
                  THEN TRUE
             ELSE FALSE

\* a guard that splits a token at its first connector character
SplitAtConnector(s) ==
    LET at == {k \in 1..Len(s) : s[k] \in ConnectorChars}
    IN  IF at = {} THEN <<s>>
        ELSE <<SubSeq(s, 1, SetMin(at) - 1), SubSeq(s, SetMin(at) + 1, Len(s))>>

split_english_japanese(s) ==
    IF s = <<>> THEN <<>>
    ELSE IF \E k \in 1..Len(s) : s[k] \in ConnectorChars THEN <<s>>
    ELSE IF is_special_mixed_pattern(s) THEN <<s>>
    ELSE <<s>>

----------------------------------------------------------------------------
(* split_tasks: the loops that are computed in one step *)

KeepSubpartAfterStrip(subpart, fields, tasks) ==
    /\ subpart # <<>>
    /\ strip(StripChars(subpart, PunctuationChars)) \notin fields
    /\ ~InList(subpart, tasks)

\* the test of line 330
KeepSubpart(subpart, fields, tasks) ==
    subpart # <<>> /\ subpart \notin fields /\ ~InList(subpart, tasks)

\* lines 328-331
RECURSIVE AddSubparts(_, _, _)
AddSubparts(subparts, fields, tasks) ==
    IF subparts = <<>> THEN tasks
    ELSE LET subpart == strip(Head(subparts))
         IN  AddSubparts(Tail(subparts), fields,
                         IF KeepSubpart(subpart, fields, tasks)
                         THEN Append(tasks, subpart) ELSE tasks)

\* lines 321-331
RECURSIVE MainTasks(_, _, _)
MainTasks(parts, fields, tasks) ==
    IF parts = <<>> THEN tasks
    ELSE LET part == strip(Head(parts))
         IN  IF part = <<>> THEN MainTasks(Tail(parts), fields, tasks)
             ELSE MainTasks(Tail(parts), fields,
                            AddSubparts(split_english_japanese(part),
                                        fields, tasks))

RECURSIVE ParenTasksExcluding(_, _)
ParenTasksExcluding(contents, tasks) ==
    IF contents = <<>> THEN tasks
    ELSE LET content == strip(Head(contents))
         IN  ParenTasksExcluding(Tail(contents),
                                 IF /\ content # <<>>
                                    /\ content \notin user_fields
                                    /\ ~InList(content, tasks)
                                 THEN Append(tasks, content) ELSE tasks)

\* lines 333-337
RECURSIVE ParenTasks(_, _)
ParenTasks(contents, tasks) ==
    IF contents = <<>> THEN tasks
    ELSE LET content == strip(Head(contents))
         IN  ParenTasks(Tail(contents),
                        IF content # <<>> /\ ~InList(content, tasks)
                        THEN Append(tasks, content) ELSE tasks)

\* the test of line 345
IsMeetingPair(tasks, k) ==
    /\ tasks[k + 1] = KAIGI
    /\ k + 1 < Len(tasks)
    /\ tasks[k + 2] \in {NON_ESSENTIAL, ESSENTIAL}

SkipStepOne == 2 - 1

\* the step of line 346
SkipStep == 2

KeepStepMissing == 1 - 1

\* the step of line 349
KeepStep == 1

StripPunctuationNoTrim(task) == StripChars(task, PunctuationChars)

\* lines 356-357
StripPunctuation(task) == strip(StripChars(task, PunctuationChars))

KeepFinalNoDedup(task, seen) == task # <<>>

\* the test of line 358
KeepFinal(task, seen) == task # <<>> /\ task \notin seen

----------------------------------------------------------------------------
(* The inputs that are checked *)

\* every sequence over S of length at most n
SeqsUpTo(S, n) == UNION {[1..k -> S] : k \in 0..n}

RECURSIVE Join(_, _)
Join(ws, sep) ==
    IF ws = <<>> THEN <<>>
    ELSE IF Len(ws) = 1 THEN ws[1]
    ELSE ws[1] \o sep \o Join(Tail(ws), sep)

\* texts of brackets, letters and blanks, character by character
CharAlphabet == {"A", "(", ")", "U+3010", "U+3011", " "}

CharTexts == SeqsUpTo(CharAlphabet, MaxLen)

\* texts of words: a word is a token, bare, with a trailing comma, or in
\* brackets; the words of a text are joined by one separator
BaseWords == {KAIGI, ESSENTIAL, NON_ESSENTIAL, <<"A">>}

Words ==
    BaseWords
    \cup {w \o <<",">> : w \in {KAIGI, <<"A">>}}
    \cup {<<"(">> \o w \o <<")">> : w \in {ESSENTIAL, <<"A">>}}

WordSeparators == {<<"_">>, <<"U+3000">>}

WordTexts ==
    {Join(ws, sep) : ws \in SeqsUpTo(Words, MaxWords), sep \in WordSeparators}

\* the literal scenarios of section 8 of the specification, and texts of
\* separators only
ScenarioTexts ==
    {<<"A", "(", "B", ")">>,
     <<"(", "A", "(", "B", ")", ")">>,
     KAIGI \o <<"_">> \o ESSENTIAL,
     KAIGI,
     <<"A", "U+FF08", "B", "U+FF09">>,
     <<"(", "A", ")", "(", "B", ")">>,
     <<"(", "(", "A", ")", "B", ")">>,
     <<"(", "(", "A", ")", ")", "(", "B", ")">>,
     <<"B", " ", "A", ",", " ", "B">>,
     <<"(", "A", " ", ",", ")">>,
     <<"(", "A", ",", " ", ",", ")">>,
     <<"A", "U+4F1A", "U+8B70", "_">> \o NON_ESSENTIAL,
     <<"(", ")", "(", "A", ")">>,
     <<"U+4F1A", "U+8B70", "A">>,
     <<"_", "U+3000", " ">>}

CellValues == {NaN} \cup CharTexts \cup WordTexts \cup ScenarioTexts

UserFieldChoices == {{}, {<<"A">>}, {KAIGI}}

----------------------------------------------------------------------------
(* split_tasks as a state machine *)

Init ==
    /\ cell_value \in CellValues
    /\ user_fields \in UserFieldChoices
    /\ pc = "start"
    /\ text = <<>>
    /\ i = 0
    /\ stack = <<>>
    /\ matches = <<>>
    /\ top_level_matches = <<>>
    /\ covered_indices = {}
    /\ main_text = <<>>
    /\ paren_contents = <<>>
    /\ main_tasks = <<>>
    /\ paren_tasks = <<>>
    /\ combined_tasks = <<>>
    /\ final_filtered_tasks = <<>>
    /\ final_tasks = <<>>
    /\ seen_tasks = {}
    /\ fpc = "none"
    /\ df = <<>>
    /\ columns = {}
    /\ cells = <<>>
    /\ index = 0
    /\ row_tasks = <<>>
    /\ mpc = "none"
    /\ existing_file = [present |-> FALSE, rows |-> <<>>]
    /\ new_data_df = <<>>
    /\ existing_df = <<>>
    /\ overlapping = {}
    /\ merged_df = <<>>

extractVars == <<stack, matches, top_level_matches, covered_indices>>

resultVars == <<main_text, paren_contents>>

taskVars == <<main_tasks, paren_tasks, combined_tasks, final_filtered_tasks,
              final_tasks, seen_tasks>>

\* lines 314-315
ReturnIsNa ==
    /\ pc = "start"
    /\ cell_value = NaN
    /\ pc' = "done"
    /\ UNCHANGED <<cell_value, user_fields, text, i, extractVars, resultVars,
                   taskVars>>
    /\ UNCHANGED frameVars
    /\ UNCHANGED mergeVars

\* line 317, and the call of line 318
Normalize ==
    /\ pc = "start"
    /\ cell_value # NaN
    /\ text' = normalize_text(cell_value)
    /\ i' = 0
    /\ pc' = "scan"
    /\ UNCHANGED <<cell_value, user_fields, extractVars, resultVars, taskVars>>
    /\ UNCHANGED frameVars
    /\ UNCHANGED mergeVars

\* lines 226-227
ReturnEmptyText ==
    /\ pc = "scan"
    /\ text = <<>>
    /\ main_text' = <<>>
    /\ paren_contents' = <<>>
    /\ pc' = "tasks"
    /\ UNCHANGED <<cell_value, user_fields, text, i, extractVars, taskVars>>
    /\ UNCHANGED frameVars
    /\ UNCHANGED mergeVars

\* lines 234-236
ScanOpen ==
    /\ pc = "scan"
    /\ i < Len(text)
    /\ text[i + 1] \in opening_brackets
    /\ stack' = Append(stack, <<i, text[i + 1]>>)
    /\ i' = i + 1
    /\ UNCHANGED <<pc, cell_value, user_fields, text, matches,
                   top_level_matches, covered_indices, resultVars, taskVars>>
    /\ UNCHANGED frameVars
    /\ UNCHANGED mergeVars

TopMatchesAnyStyle(stk, char) == stk # <<>>

\* the test of line 238
TopMatches(stk, char) ==
    stk # <<>> /\ stk[Len(stk)][2] = closing_brackets(char)

\* lines 237-240
ScanClose ==
    /\ pc = "scan"
    /\ i < Len(text)
    /\ text[i + 1] \notin opening_brackets
    /\ closing_brackets(text[i + 1]) # "none"
    /\ IF TopMatches(stack, text[i + 1])
       THEN /\ stack' = SubSeq(stack, 1, Len(stack) - 1)
            /\ matches' = Append(matches, <<stack[Len(stack)][1], i>>)
       ELSE UNCHANGED <<stack, matches>>
    /\ i' = i + 1
    /\ UNCHANGED <<pc, cell_value, user_fields, text, top_level_matches,
                   covered_indices, resultVars, taskVars>>
    /\ UNCHANGED frameVars
    /\ UNCHANGED mergeVars

\* line 234, for a character that is no bracket
ScanOther ==
    /\ pc = "scan"
    /\ i < Len(text)
    /\ text[i + 1] \notin opening_brackets
    /\ closing_brackets(text[i + 1]) = "none"
    /\ i' = i + 1
    /\ UNCHANGED <<pc, cell_value, user_fields, text, extractVars, resultVars,
                   taskVars>>
    /\ UNCHANGED frameVars
    /\ UNCHANGED mergeVars

\* lines 242-243
ReturnNoMatches ==
    /\ pc = "scan"
    /\ text # <<>>
    /\ i = Len(text)
    /\ matches = <<>>
    /\ main_text' = text
    /\ paren_contents' = <<>>
    /\ pc' = "tasks"
    /\ UNCHANGED <<cell_value, user_fields, text, i, extractVars, taskVars>>
    /\ UNCHANGED frameVars
    /\ UNCHANGED mergeVars

\* lines 245-247
Sort ==
    /\ pc = "scan"
    /\ text # <<>>
    /\ i = Len(text)
    /\ matches # <<>>
    /\ matches' = SortMatches(matches)
    /\ top_level_matches' = <<>>
    /\ covered_indices' = {}
    /\ i' = 0
    /\ pc' = "select"
    /\ UNCHANGED <<cell_value, user_fields, text, stack, resultVars, taskVars>>
    /\ UNCHANGED frameVars
    /\ UNCHANGED mergeVars

\* lines 249-253: one iteration over matches
Select ==
    /\ pc = "select"
    /\ i < Len(matches)
    /\ LET start == matches[i + 1][1]
           end == matches[i + 1][2]
       IN  IF Selectable(start, end, covered_indices)
           THEN /\ top_level_matches' = Append(top_level_matches, <<start, end>>)
                /\ covered_indices' = covered_indices \cup RangeSet(start, end)
           ELSE UNCHANGED <<top_level_matches, covered_indices>>
    /\ i' = i + 1
    /\ UNCHANGED <<pc, cell_value, user_fields, text, stack, matches,
                   resultVars, taskVars>>
    /\ UNCHANGED frameVars
    /\ UNCHANGED mergeVars

\* lines 255-273
ReturnExtracted ==
    /\ pc = "select"
    /\ i = Len(matches)
    /\ paren_contents' = ParenContent(text, top_level_matches)
    /\ main_text' = CleanedText(text, top_level_matches)
    /\ pc' = "tasks"
    /\ UNCHANGED <<cell_value, user_fields, text, i, extractVars, taskVars>>
    /\ UNCHANGED frameVars
    /\ UNCHANGED mergeVars

\* lines 319-341
BuildTasks ==
    /\ pc = "tasks"
    /\ main_tasks' = MainTasks(ReSplit(main_text), user_fields, <<>>)
    /\ paren_tasks' = ParenTasks(paren_contents, <<>>)
    /\ combined_tasks' = main_tasks' \o paren_tasks'
    /\ final_filtered_tasks' = <<>>
    /\ i' = 0
    /\ pc' = "suppress"
    /\ UNCHANGED <<cell_value, user_fields, text, extractVars, resultVars,
                   final_tasks, seen_tasks>>
    /\ UNCHANGED frameVars
    /\ UNCHANGED mergeVars

\* lines 343-346
SuppressSkip ==
    /\ pc = "suppress"
    /\ i < Len(combined_tasks)
    /\ IsMeetingPair(combined_tasks, i)
    /\ i' = i + SkipStep
    /\ UNCHANGED <<pc, cell_value, user_fields, text, extractVars, resultVars,
                   taskVars>>
    /\ UNCHANGED frameVars
    /\ UNCHANGED mergeVars

\* lines 343-349
SuppressKeep ==
    /\ pc = "suppress"
    /\ i < Len(combined_tasks)
    /\ ~IsMeetingPair(combined_tasks, i)
    /\ final_filtered_tasks' = Append(final_filtered_tasks, combined_tasks[i + 1])
    /\ i' = i + KeepStep
    /\ UNCHANGED <<pc, cell_value, user_fields, text, extractVars, resultVars,
                   main_tasks, paren_tasks, combined_tasks, final_tasks,
                   seen_tasks>>
    /\ UNCHANGED frameVars
    /\ UNCHANGED mergeVars

\* lines 343 and 351-353
SuppressEnd ==
    /\ pc = "suppress"
    /\ ~(i < Len(combined_tasks))
    /\ final_tasks' = <<>>
    /\ seen_tasks' = {}
    /\ i' = 0
    /\ pc' = "final"
    /\ UNCHANGED <<cell_value, user_fields, text, extractVars, resultVars,
                   main_tasks, paren_tasks, combined_tasks,
                   final_filtered_tasks>>
    /\ UNCHANGED frameVars
    /\ UNCHANGED mergeVars

\* lines 355-360: one iteration over final_filtered_tasks
FinalPass ==
    /\ pc = "final"
    /\ i < Len(final_filtered_tasks)
    /\ LET task == StripPunctuation(final_filtered_tasks[i + 1])
       IN  IF KeepFinal(task, seen_tasks)
           THEN /\ final_tasks' = Append(final_tasks, task)
                /\ seen_tasks' = seen_tasks \cup {task}
           ELSE UNCHANGED <<final_tasks, seen_tasks>>
    /\ i' = i + 1
    /\ UNCHANGED <<pc, cell_value, user_fields, text, extractVars, resultVars,
                   main_tasks, paren_tasks, combined_tasks,
                   final_filtered_tasks>>
    /\ UNCHANGED frameVars
    /\ UNCHANGED mergeVars

\* line 362
Return ==
    /\ pc = "final"
    /\ i = Len(final_filtered_tasks)
    /\ pc' = "done"
    /\ UNCHANGED <<cell_value, user_fields, text, i, extractVars, resultVars,
                   taskVars>>
    /\ UNCHANGED frameVars
    /\ UNCHANGED mergeVars

Next ==
    \/ ReturnIsNa
    \/ Normalize
    \/ ReturnEmptyText
    \/ ScanOpen
    \/ ScanClose
    \/ ScanOther
    \/ ReturnNoMatches
    \/ Sort
    \/ Select
    \/ ReturnExtracted
    \/ BuildTasks
    \/ SuppressSkip
    \/ SuppressKeep
    \/ SuppressEnd
    \/ FinalPass
    \/ Return

Spec == Init /\ [][Next]_vars

----------------------------------------------------------------------------
(* split_business_content over a frame *)

\* the number of task columns of lines 372 and 391
SlotCount == 10

\* the values of USER_FIELD_01, USER_FIELD_02 and USER_FIELD_03 of a row
NoFields == <<NaN, NaN, NaN>>

\* a work content of eleven tokens
ElevenTokens ==
    Join(<< <<"A">>, <<"B">>, <<"E">>, <<"N">>, <<"a">>, <<"e">>, <<"i">>,
            <<"l">>, <<"n">>, <<"o">>, <<"s">> >>, <<" ">>)

\* the rows a frame is made of
FrameRecords ==
    {[content |-> NaN, fields |-> NoFields],
     [content |-> <<>>, fields |-> NoFields],
     [content |-> <<"A", "(", "B", ")">>, fields |-> <<<<"A">>, NaN, <<>>>>],
     [content |-> <<"(", "A">>, fields |-> NoFields],
     [content |-> <<"(", "A", "(", "B", ")">>, fields |-> NoFields],
     [content |-> KAIGI \o <<"_">> \o ESSENTIAL \o <<"_", "A">>,
      fields |-> NoFields],
     [content |-> ElevenTokens, fields |-> NoFields]}

Frames == SeqsUpTo(FrameRecords, MaxRows)

\* the task columns the frame has on entry: none, or those an earlier run
\* left in the existing file, whose rows line 198 joins with the new ones
PriorColumnChoices == {{}, 1..(SlotCount + 1)}

\* lines 381-386
UserFields(row) ==
    {normalize_text(row.fields[f]) :
        f \in {g \in 1..3 : row.fields[g] # NaN}} \ {<<>>}

\* the frame handed to split_business_content: the rows come from the new
\* data, so that a task column of the existing file holds no value for them
InitFrame ==
    /\ df \in Frames
    /\ columns \in PriorColumnChoices
    /\ cells = [r \in 1..Len(df) |-> [k \in columns |-> NaN]]
    /\ index = 0
    /\ row_tasks = <<>>
    /\ fpc = "prepare"
    /\ pc = "idle"
    /\ cell_value = NaN
    /\ user_fields = {}
    /\ text = <<>>
    /\ i = 0
    /\ stack = <<>>
    /\ matches = <<>>
    /\ top_level_matches = <<>>
    /\ covered_indices = {}
    /\ main_text = <<>>
    /\ paren_contents = <<>>
    /\ main_tasks = <<>>
    /\ paren_tasks = <<>>
    /\ combined_tasks = <<>>
    /\ final_filtered_tasks = <<>>
    /\ final_tasks = <<>>
    /\ seen_tasks = {}
    /\ mpc = "none"
    /\ existing_file = [present |-> FALSE, rows |-> <<>>]
    /\ new_data_df = <<>>
    /\ existing_df = <<>>
    /\ overlapping = {}
    /\ merged_df = <<>>

\* lines 372-373
PrepareColumns ==
    /\ fpc = "prepare"
    /\ columns' = columns \cup (1..SlotCount)
    /\ cells' = [r \in 1..Len(df) |->
                    [k \in columns' |->
                        IF k \in 1..SlotCount THEN <<>> ELSE cells[r][k]]]
    /\ fpc' = "rows"
    /\ UNCHANGED <<pc, cell_value, user_fields, text, i, extractVars,
                   resultVars, taskVars, df, index, row_tasks>>
    /\ UNCHANGED mergeVars

KeptLocals ==
    UNCHANGED <<text, i, extractVars, resultVars, taskVars>>

\* a call of split_tasks starts with none of its locals bound
FreshLocals ==
    /\ text' = <<>>
    /\ i' = 0
    /\ stack' = <<>>
    /\ matches' = <<>>
    /\ top_level_matches' = <<>>
    /\ covered_indices' = {}
    /\ main_text' = <<>>
    /\ paren_contents' = <<>>
    /\ main_tasks' = <<>>
    /\ paren_tasks' = <<>>
    /\ combined_tasks' = <<>>
    /\ final_filtered_tasks' = <<>>
    /\ final_tasks' = <<>>
    /\ seen_tasks' = {}

\* lines 378-388: the next row, its user fields and the call of split_tasks
StartRow ==
    /\ fpc = "rows"
    /\ index < Len(df)
    /\ index' = index + 1
    /\ cell_value' = df[index + 1].content
    /\ user_fields' = UserFields(df[index + 1])
    /\ FreshLocals
    /\ pc' = "start"
    /\ fpc' = "call"
    /\ UNCHANGED <<df, columns, cells, row_tasks>>
    /\ UNCHANGED mergeVars

OverflowColumnsNone(tasks) == {}

\* the columns of lines 394-399
OverflowColumns(tasks) ==
    IF Len(tasks) > SlotCount THEN (SlotCount + 1)..Len(tasks) ELSE {}

\* lines 388-400: the tasks returned are written to the columns of the row;
\* a column that line 398 creates is empty in every row
AssignRow ==
    /\ fpc = "call"
    /\ pc = "done"
    /\ LET tasks == final_tasks
           written == {k \in 1..SlotCount : k <= Len(tasks)}
                          \cup OverflowColumns(tasks)
       IN  /\ row_tasks' = Append(row_tasks, tasks)
           /\ columns' = columns \cup OverflowColumns(tasks)
           /\ cells' = [r \in 1..Len(df) |->
                           [k \in columns' |->
                               IF r = index /\ k \in written THEN tasks[k]
                               ELSE IF k \in columns THEN cells[r][k]
                               ELSE <<>>]]
    /\ pc' = "idle"
    /\ fpc' = "rows"
    /\ UNCHANGED <<cell_value, user_fields, text, i, extractVars, resultVars,
                   taskVars, df, index>>
    /\ UNCHANGED mergeVars

\* lines 407-424: the task columns are put in the order of their numbers,
\* which a set of numbers has, and the frame is returned
ReturnFrame ==
    /\ fpc = "rows"
    /\ index = Len(df)
    /\ fpc' = "returned"
    /\ UNCHANGED <<pc, cell_value, user_fields, text, i, extractVars,
                   resultVars, taskVars, df, columns, cells, index, row_tasks>>
    /\ UNCHANGED mergeVars

NextFrame ==
    \/ PrepareColumns
    \/ StartRow
    \/ ReturnIsNa
    \/ Normalize
    \/ ReturnEmptyText
    \/ ScanOpen
    \/ ScanClose
    \/ ScanOther
    \/ ReturnNoMatches
    \/ Sort
    \/ Select
    \/ ReturnExtracted
    \/ BuildTasks
    \/ SuppressSkip
    \/ SuppressKeep
    \/ SuppressEnd
    \/ FinalPass
    \/ Return
    \/ AssignRow
    \/ ReturnFrame

SpecFrame == InitFrame /\ [][NextFrame]_vars

----------------------------------------------------------------------------
(* merge_effort_data *)

\* the values of a cell of the columns of year, month and work hours: a
\* number, a text that is no number, or the missing value
Number(n) == <<"number", n>>

NonNumeric == <<"text", 0>>

NA == <<"NA", 0>>

\* existing_file_input is None
NoFile == [present |-> FALSE, rows |-> <<>>]

\* pd.to_numeric(., errors='coerce')
ToNumeric(v) == IF v[1] = "number" THEN v ELSE NA

notna(v) == v[1] # "NA"

\* the rows of the existing file that are checked
ExistingRows ==
    {[year |-> y, month |-> Number(m), name |-> "a", hours |-> Number(h)] :
        y \in {Number(2024), NonNumeric}, m \in {1, 2}, h \in {0, 1}}
    \cup {[year |-> Number(2024), month |-> NonNumeric, name |-> "a",
           hours |-> Number(1)]}

\* the rows of the new data: process_monthly_data keeps the rows with a
\* year, a month and positive work hours
NewRows ==
    {[year |-> Number(2024), month |-> Number(m), name |-> "b",
      hours |-> Number(1)] : m \in {1, 2}}

\* line 173-177: the rows that the cleaning keeps
ValidRow(row) ==
    /\ ToNumeric(row.hours)[1] = "number"
    /\ ToNumeric(row.hours)[2] > 0
    /\ notna(row.year)
    /\ notna(row.month)

\* set(zip(df['年'], df['月']))
YearMonths(rows) == {<<rows[k].year, rows[k].month>> : k \in 1..Len(rows)}

OverlappingNone(new, existing) == {}

\* lines 180-183
Overlapping(new, existing) == YearMonths(new) \cap YearMonths(existing)

\* lines 169-170
CoerceRow(row) ==
    [row EXCEPT !.year = ToNumeric(row.year), !.month = ToNumeric(row.month)]

\* the order of sort_values(['年', '月', '従業員名']) of line 201
RowLess(a, b) ==
    \/ a.year[2] < b.year[2]
    \/ a.year[2] = b.year[2] /\ a.month[2] < b.month[2]
    \/ a.year[2] = b.year[2] /\ a.month[2] = b.month[2]
       /\ a.name = "a" /\ b.name = "b"

RECURSIVE InsertRow(_, _)
InsertRow(x, xs) ==
    IF xs = <<>> THEN <<x>>
    ELSE IF RowLess(x, Head(xs)) THEN <<x>> \o xs
         ELSE <<Head(xs)>> \o InsertRow(x, Tail(xs))

\* line 201
RECURSIVE SortRows(_)
SortRows(rows) ==
    IF rows = <<>> THEN <<>>
    ELSE InsertRow(rows[Len(rows)], SortRows(SubSeq(rows, 1, Len(rows) - 1)))

InitMerge ==
    /\ existing_file \in
           {NoFile} \cup {[present |-> TRUE, rows |-> rows] :
                              rows \in SeqsUpTo(ExistingRows, MaxMergeRows)}
    /\ new_data_df \in SeqsUpTo(NewRows, MaxMergeRows)
    /\ existing_df = <<>>
    /\ overlapping = {}
    /\ merged_df = <<>>
    /\ mpc = "start"
    /\ fpc = "none"
    /\ df = <<>>
    /\ columns = {}
    /\ cells = <<>>
    /\ index = 0
    /\ row_tasks = <<>>
    /\ pc = "idle"
    /\ cell_value = NaN
    /\ user_fields = {}
    /\ text = <<>>
    /\ i = 0
    /\ stack = <<>>
    /\ matches = <<>>
    /\ top_level_matches = <<>>
    /\ covered_indices = {}
    /\ main_text = <<>>
    /\ paren_contents = <<>>
    /\ main_tasks = <<>>
    /\ paren_tasks = <<>>
    /\ combined_tasks = <<>>
    /\ final_filtered_tasks = <<>>
    /\ final_tasks = <<>>
    /\ seen_tasks = {}

otherVars == <<pc, cell_value, user_fields, text, i, extractVars, resultVars,
               taskVars, frameVars>>

\* lines 155-157
CopyNewData ==
    /\ mpc = "start"
    /\ existing_file = NoFile
    /\ merged_df' = new_data_df
    /\ mpc' = "sort"
    /\ UNCHANGED <<existing_file, new_data_df, existing_df, overlapping,
                   otherVars>>

\* lines 159-170
ReadExisting ==
    /\ mpc = "start"
    /\ existing_file # NoFile
    /\ existing_df' = [k \in 1..Len(existing_file.rows) |->
                          CoerceRow(existing_file.rows[k])]
    /\ mpc' = "clean"
    /\ UNCHANGED <<existing_file, new_data_df, overlapping, merged_df,
                   otherVars>>

\* lines 173-177
CleanExisting ==
    /\ mpc = "clean"
    /\ existing_df' = SelectSeq(existing_df, ValidRow)
    /\ mpc' = "find"
    /\ UNCHANGED <<existing_file, new_data_df, overlapping, merged_df,
                   otherVars>>

\* lines 180-184
FindOverlapping ==
    /\ mpc = "find"
    /\ overlapping' = Overlapping(new_data_df, existing_df)
    /\ mpc' = "remove"
    /\ UNCHANGED <<existing_file, new_data_df, existing_df, merged_df,
                   otherVars>>

\* lines 187-190: one iteration over overlapping, whose order is that of a set
RemoveOverlapping ==
    /\ mpc = "remove"
    /\ \E ym \in overlapping :
           /\ existing_df' =
                  SelectSeq(existing_df,
                            LAMBDA row : ~(row.year = ym[1] /\ row.month = ym[2]))
           /\ overlapping' = overlapping \ {ym}
    /\ UNCHANGED <<mpc, existing_file, new_data_df, merged_df, otherVars>>

\* line 198
Concat ==
    /\ mpc = "remove"
    /\ overlapping = {}
    /\ merged_df' = existing_df \o new_data_df
    /\ mpc' = "sort"
    /\ UNCHANGED <<existing_file, new_data_df, existing_df, overlapping,
                   otherVars>>

\* lines 201-205
SortMerged ==
    /\ mpc = "sort"
    /\ merged_df' = SortRows(merged_df)
    /\ mpc' = "returned"
    /\ UNCHANGED <<existing_file, new_data_df, existing_df, overlapping,
                   otherVars>>

NextMerge ==
    \/ CopyNewData
    \/ ReadExisting
    \/ CleanExisting
    \/ FindOverlapping
    \/ RemoveOverlapping
    \/ Concat
    \/ SortMerged

SpecMerge == InitMerge /\ [][NextMerge]_vars

----------------------------------------------------------------------------
(* Properties *)

IsString(s) == DOMAIN s = 1..Len(s)

\* the length of the loop pc names, and how far it has to go
LoopLength ==
    CASE pc = "scan" -> Len(text)
      [] pc = "select" -> Len(matches)
      [] pc = "suppress" -> Len(combined_tasks)
      [] pc = "final" -> Len(final_filtered_tasks)
      [] OTHER -> 0

PhaseRank ==
    CASE pc = "start" -> 5
      [] pc = "scan" -> 4
      [] pc = "select" -> 3
      [] pc = "tasks" -> 2
      [] pc = "suppress" -> 1
      [] OTHER -> 0

\* a natural number that every step of split_tasks makes smaller
Variant ==
    PhaseRank * (Len(cell_value) + 2)
    + (IF pc = "final" THEN 1 ELSE 0)
    + (IF pc \in {"scan", "select", "suppress", "final"}
       THEN LoopLength - i ELSE 0)

\* C1: split_tasks is total: from every work content and excluded set each of
\* its loops keeps its index within the list it walks, every step brings the
\* end of the call strictly nearer, and the value returned is a list of
\* strings.
C1_Totality ==
    /\ [](/\ pc \in {"start", "scan", "select", "tasks", "suppress", "final",
                     "done"}
          /\ pc \in {"scan", "select", "suppress", "final"} =>
                 0 <= i /\ i <= LoopLength
          /\ Variant >= 0
          /\ pc = "done" =>
                 \A k \in 1..Len(final_tasks) : IsString(final_tasks[k]))
    /\ [][Variant' < Variant]_vars

\* an unbalanced text has gone through every loop and has been returned
C1_Witness ==
    /\ pc = "done"
    /\ stack # <<>>
    /\ matches # <<>>
    /\ final_tasks # <<>>

\* C2: no value appears twice in the list returned by split_tasks.
C2_Deduplication ==
    \A a, b \in 1..Len(final_tasks) : a # b => final_tasks[a] # final_tasks[b]

\* two different tokens have become equal by the stripping of the final
\* pass, or one value has come from the main text and from a bracket
C2_Witness ==
    /\ pc = "done"
    /\ \E a, b \in 1..Len(final_filtered_tasks) :
           /\ a < b
           /\ final_filtered_tasks[a] # final_filtered_tasks[b]
           /\ StripPunctuation(final_filtered_tasks[a])
                  = StripPunctuation(final_filtered_tasks[b])
    /\ \E a \in 1..Len(main_tasks), b \in 1..Len(paren_tasks) :
           /\ main_tasks[a] = paren_tasks[b]
           /\ InList(main_tasks[a], final_tasks)

\* the tokens of the text before deduplication and exclusion: the pieces of
\* the main text, then the bracket contents
RECURSIVE NonEmptyStripped(_)
NonEmptyStripped(xs) ==
    IF xs = <<>> THEN <<>>
    ELSE (IF strip(Head(xs)) # <<>> THEN <<strip(Head(xs))>> ELSE <<>>)
         \o NonEmptyStripped(Tail(xs))

RawMainTokens == NonEmptyStripped(ReSplit(main_text))

RawParenTokens == NonEmptyStripped(paren_contents)

Markers == {ESSENTIAL, NON_ESSENTIAL}

\* the first place of a token that the final pass turns into task, 0 if none
FirstPlace(task, tokens) ==
    LET places == {k \in 1..Len(tokens) : StripPunctuation(tokens[k]) = task}
    IN  IF places = {} THEN 0 ELSE SetMin(places)

\* a is a contiguous part of b
IsSubstring(a, b) ==
    \E off \in 0..(Len(b) - Len(a)) : SubSeq(b, off + 1, off + Len(a)) = a

\* C3: no task of the list returned by split_tasks is a value of the excluded
\* set.
C3_Exclusion ==
    pc = "done" =>
        \A k \in 1..Len(final_tasks) : final_tasks[k] \notin user_fields

\* C4: the list returned by split_tasks never holds the meeting token
\* immediately followed by an essentiality marker.
C4_Suppression ==
    pc = "done" =>
        \A k \in 1..(Len(final_tasks) - 1) :
            ~(final_tasks[k] = KAIGI /\ final_tasks[k + 1] \in Markers)

\* C5: a meeting token of the text that no marker follows, and a marker of
\* the text that no meeting token precedes, is in the list returned by
\* split_tasks unless its value is excluded.
C5_StandaloneSurvives ==
    pc = "done" =>
        LET raw == RawMainTokens \o RawParenTokens
        IN  /\ (/\ KAIGI \notin user_fields
                /\ \E k \in 1..Len(raw) :
                       /\ raw[k] = KAIGI
                       /\ k = Len(raw) \/ raw[k + 1] \notin Markers)
               => InList(KAIGI, final_tasks)
            /\ \A m \in Markers :
                   (/\ m \notin user_fields
                    /\ \E k \in 1..Len(raw) :
                           /\ raw[k] = m
                           /\ k = 1 \/ raw[k - 1] # KAIGI)
                   => InList(m, final_tasks)

\* C6: in the list returned by split_tasks the tasks that come from the main
\* text precede those that come from brackets only, and within each group
\* the tasks are in the order of their first occurrence in the text.
C6_OrderPreserved ==
    pc = "done" =>
        LET FromMain(t) ==
                \E k \in 1..Len(main_tasks) : StripPunctuation(main_tasks[k]) = t
        IN  \A a, b \in 1..Len(final_tasks) :
                a < b =>
                    LET x == final_tasks[a]
                        y == final_tasks[b]
                    IN  /\ ~(~FromMain(x) /\ FromMain(y))
                        /\ FromMain(x) /\ FromMain(y) =>
                               FirstPlace(x, RawMainTokens)
                                   < FirstPlace(y, RawMainTokens)
                        /\ ~FromMain(x) /\ ~FromMain(y) =>
                               FirstPlace(x, RawParenTokens)
                                   < FirstPlace(y, RawParenTokens)

\* span a lies strictly inside span b
Inside(a, b) == b[1] < a[1] /\ a[2] < b[2]

\* C7: of nested matched brackets extract_parentheses_content selects the
\* outermost pair only: a candidate span inside another candidate is not
\* selected, and its text, brackets included, is a contiguous part of an
\* entry of paren_contents; "(A(B))" gives the single content "A(B)" and an
\* empty main text.
C7_OutermostOnly ==
    pc \in {"tasks", "suppress", "final", "done"} =>
        /\ \A a \in 1..Len(matches) :
               (\E b \in 1..Len(matches) : Inside(matches[a], matches[b])) =>
                   /\ ~InList(matches[a], top_level_matches)
                   /\ \E e \in 1..Len(paren_contents) :
                          IsSubstring(SubSeq(text, matches[a][1] + 1,
                                             matches[a][2] + 1),
                                      paren_contents[e])
        /\ Len(paren_contents) <= Len(top_level_matches)
        /\ text = <<"(", "A", "(", "B", ")", ")">> =>
               /\ paren_contents = <<<<"A", "(", "B", ")">>>>
               /\ main_text = <<>>

C7_Witness ==
    /\ pc = "done"
    /\ text = <<"(", "A", "(", "B", ")", ")">>
    /\ Len(matches) = 2
    /\ top_level_matches = <<<<0, 5>>>>
    /\ final_tasks = <<<<"A", "(", "B", ")">>>>

\* C8: at every step of the greedy selection and after it, the offset ranges
\* of the selected spans are pairwise disjoint and covered_indices is their
\* union.
C8_NonOverlap ==
    /\ \A a, b \in 1..Len(top_level_matches) :
           a # b =>
               (top_level_matches[a][1]..top_level_matches[a][2])
               \cap (top_level_matches[b][1]..top_level_matches[b][2]) = {}
    /\ covered_indices =
           UNION {top_level_matches[a][1]..top_level_matches[a][2] :
                      a \in 1..Len(top_level_matches)}

\* the selection has taken two spans and has refused a nested one
C8_Witness ==
    /\ pc = "select"
    /\ i = Len(matches)
    /\ Len(top_level_matches) = 2
    /\ Len(matches) = 3

\* C9: a missing work content, an empty one and one of separators only give
\* the empty list, whatever the excluded set.
C9_EmptyInput ==
    (/\ pc = "done"
     /\ \/ cell_value = NaN
        \/ \A k \in 1..Len(cell_value) : cell_value[k] \in {"_", " ", "U+3000"})
    => final_tasks = <<>>

C9_Witness ==
    /\ pc = "done"
    /\ cell_value = <<"_", "U+3000", " ">>
    /\ user_fields # {}
    /\ final_tasks = <<>>

C11_TasksTrimmed ==
    \A k \in 1..Len(final_tasks) :
        /\ final_tasks[k] # <<>>
        /\ final_tasks[k][1] \notin {" ", "\t", "U+3000"}
        /\ final_tasks[k][Len(final_tasks[k])] \notin {" ", "\t", "U+3000"}

\* a token that the stripping of punctuation leaves with a blank at an end
\* has been returned, trimmed
C11_Witness ==
    /\ pc = "done"
    /\ \E k \in 1..Len(final_filtered_tasks) :
           /\ StripChars(final_filtered_tasks[k], PunctuationChars)
                  # StripPunctuation(final_filtered_tasks[k])
           /\ InList(StripPunctuation(final_filtered_tasks[k]), final_tasks)

\* C13: the main text returned by extract_parentheses_content neither begins
\* nor ends with a bracket-like character, and has no leading, trailing or
\* repeated whitespace, with or without a matched pair in the text.
C13_MainTextClean ==
    pc \in {"tasks", "suppress", "final", "done"} =>
        \/ main_text = <<>>
        \/ /\ main_text[1] \notin BracketLikeChars \cup WhitespaceChars
           /\ main_text[Len(main_text)]
                  \notin BracketLikeChars \cup WhitespaceChars
           /\ \A k \in 1..(Len(main_text) - 1) :
                  ~(main_text[k] \in WhitespaceChars
                    /\ main_text[k + 1] \in WhitespaceChars)

\* C14: unbalanced brackets are tolerated by the scan: a closing bracket met
\* with an empty stack or with a top of another style leaves the stack and
\* the candidate spans as they are and the scan goes on; every candidate span
\* joins an opening bracket with the closing bracket of its style; and an
\* opening bracket left on the stack is the start of no span.
C14_UnbalancedTolerated ==
    /\ [][(/\ pc = "scan"
           /\ i < Len(text)
           /\ closing_brackets(text[i + 1]) # "none"
           /\ \/ stack = <<>>
              \/ stack[Len(stack)][2] # closing_brackets(text[i + 1]))
          => (stack' = stack /\ matches' = matches /\ pc' = "scan"
              /\ i' = i + 1)]_vars
    /\ [](\A k \in 1..Len(matches) :
              /\ text[matches[k][1] + 1] \in opening_brackets
              /\ closing_brackets(text[matches[k][2] + 1])
                     = text[matches[k][1] + 1])
    /\ [](\A e \in 1..Len(stack), k \in 1..Len(matches) :
              matches[k][1] # stack[e][1])

\* the call has returned for a text with a closing bracket that closes no
\* span and an opening bracket that is left on the stack
C14_Witness ==
    /\ pc = "done"
    /\ stack # <<>>
    /\ \E k \in 0..(Len(text) - 1) :
           /\ closing_brackets(text[k + 1]) # "none"
           /\ \A m \in 1..Len(matches) : matches[m][2] # k

\* the scan machine of section 4.5 of the specification, from token k on:
\* SCANNING emits the token, or on a meeting token followed by a marker goes
\* to SKIP_NEXT without emitting; SKIP_NEXT passes one token and goes back
RECURSIVE ScanMachine(_, _, _)
ScanMachine(tokens, k, state) ==
    IF k > Len(tokens) THEN <<>>
    ELSE IF state = "SKIP_NEXT" THEN ScanMachine(tokens, k + 1, "SCANNING")
    ELSE IF /\ tokens[k] = KAIGI
            /\ k < Len(tokens)
            /\ tokens[k + 1] \in Markers
         THEN ScanMachine(tokens, k + 1, "SKIP_NEXT")
         ELSE <<tokens[k]>> \o ScanMachine(tokens, k + 1, "SCANNING")

\* xs is ys with some elements left out
RECURSIVE IsSubsequence(_, _)
IsSubsequence(xs, ys) ==
    IF xs = <<>> THEN TRUE
    ELSE IF ys = <<>> THEN FALSE
    ELSE IF Head(xs) = Head(ys) THEN IsSubsequence(Tail(xs), Tail(ys))
    ELSE IsSubsequence(xs, Tail(ys))

\* C15: the suppression loop of split_tasks is the scan machine of the
\* specification run on combined_tasks: after each iteration, and at its end,
\* final_filtered_tasks is what the machine emits for the tokens consumed so
\* far; the result is a subsequence of combined_tasks and a meeting token in
\* last position is emitted.
C15_SuppressionMachine ==
    /\ pc = "suppress" =>
           final_filtered_tasks
               = ScanMachine(SubSeq(combined_tasks, 1, i), 1, "SCANNING")
    /\ pc \in {"final", "done"} =>
           /\ final_filtered_tasks = ScanMachine(combined_tasks, 1, "SCANNING")
           /\ IsSubsequence(final_filtered_tasks, combined_tasks)
           /\ (combined_tasks # <<>>
               /\ combined_tasks[Len(combined_tasks)] = KAIGI) =>
                  /\ final_filtered_tasks # <<>>
                  /\ final_filtered_tasks[Len(final_filtered_tasks)] = KAIGI

\* a pair has been consumed and another token has been emitted
C15_Witness ==
    /\ pc = "done"
    /\ Len(final_filtered_tasks) = Len(combined_tasks) - 2
    /\ final_filtered_tasks # <<>>

\* the maximal runs of t, from place k on, of characters that are neither an
\* ASCII space, a fullwidth space nor an underscore
RECURSIVE RunsOf(_, _)
RunsOf(t, k) ==
    IF k > Len(t) THEN <<>>
    ELSE IF t[k] \in {" ", "U+3000", "_"} THEN RunsOf(t, k + 1)
    ELSE LET e == SetMax({j \in k..Len(t) :
                              \A m \in k..j : t[m] \notin {" ", "U+3000", "_"}})
         IN  <<SubSeq(t, k, e)>> \o RunsOf(t, e + 1)

\* C16: the non-empty pieces that split_tasks cuts the main text into are
\* exactly its maximal runs without space, fullwidth space or underscore, in
\* their order; main_tasks holds such runs, trimmed, in that order, and none
\* of its elements contains a space or an underscore.
C16_Tokenization ==
    pc = "done" =>
        LET runs == RunsOf(main_text, 1)
        IN  /\ SelectSeq(ReSplit(main_text), LAMBDA x : x # <<>>) = runs
            /\ IsSubsequence(main_tasks, NonEmptyStripped(runs))
            /\ \A k \in 1..Len(main_tasks) :
                   \A c \in 1..Len(main_tasks[k]) :
                       main_tasks[k][c] \notin {" ", "U+3000", "_"}

\* two tokens have come from a main text with consecutive separators
C16_Witness ==
    /\ pc = "done"
    /\ Len(main_tasks) >= 2
    /\ \E k \in 1..(Len(main_text) - 1) :
           main_text[k] \in SeparatorChars /\ main_text[k + 1] \in SeparatorChars

\* the tokens, in order, that are not excluded, each at its first occurrence
RECURSIVE FirstOccurrences(_, _, _)
FirstOccurrences(tokens, fields, acc) ==
    IF tokens = <<>> THEN acc
    ELSE FirstOccurrences(Tail(tokens), fields,
                          IF Head(tokens) \in fields \/ InList(Head(tokens), acc)
                          THEN acc ELSE Append(acc, Head(tokens)))

\* C17: split_english_japanese changes nothing: for every token of the main
\* text, with or without a connector character or the special mixed pattern,
\* it returns the token alone, so that main_tasks is the tokens themselves,
\* without the excluded and the repeated ones.
C17_GuardNoOp ==
    pc = "done" =>
        LET tokens == RawMainTokens
        IN  /\ \A k \in 1..Len(tokens) :
                   split_english_japanese(tokens[k]) = <<tokens[k]>>
            /\ main_tasks = FirstOccurrences(tokens, user_fields, <<>>)

\* a token with a connector and a token of the special mixed pattern have
\* gone through the guard
C17_Witness ==
    /\ pc = "done"
    /\ \E k \in 1..Len(main_tasks) :
           \E c \in 1..Len(main_tasks[k]) : main_tasks[k][c] \in ConnectorChars
    /\ \E k \in 1..Len(main_tasks) : is_special_mixed_pattern(main_tasks[k])

\* C18: paren_contents lists the non-empty inner texts of the selected spans
\* in ascending order of their start; a selected span gives one entry, or
\* none when its content is empty; the covered offsets are at most as many
\* as the characters of the text.
C18_ParenContents ==
    pc \in {"tasks", "suppress", "final", "done"} =>
        LET tops == top_level_matches
            full == {k \in 1..Len(tops) : tops[k][2] > tops[k][1] + 1}
            Nth(j) == CHOOSE k \in full :
                          Cardinality({m \in full : m < k}) = j - 1
        IN  /\ \A a, b \in 1..Len(tops) : a < b => tops[a][1] < tops[b][1]
            /\ Len(paren_contents) = Cardinality(full)
            /\ \A j \in 1..Len(paren_contents) :
                   paren_contents[j]
                       = [x \in 1..(tops[Nth(j)][2] - tops[Nth(j)][1] - 1)
                              |-> text[tops[Nth(j)][1] + x + 1]]
            /\ Cardinality(covered_indices) <= Len(text)

\* two spans have been selected, one of them with an empty content
C18_Witness ==
    /\ pc = "done"
    /\ Len(top_level_matches) = 2
    /\ Len(paren_contents) = 1

\* the rows r, already processed, whose inputs are those of row q
SameInputs(q, r) ==
    /\ df[q].content = df[r].content
    /\ UserFields(df[q]) = UserFields(df[r])

\* C12: the task list of a record depends only on its work content and its
\* excluded values: two rows of a frame with the same content and the same
\* excluded values get the same task list, whatever rows are processed
\* before, between and after them; no step of split_tasks changes its
\* arguments, the rows of the frame or the task list of another row.
C12_RecordIndependence ==
    /\ [](\A q, r \in 1..Len(row_tasks) :
              SameInputs(q, r) => row_tasks[q] = row_tasks[r])
    /\ [][(pc # "idle" /\ pc' # "idle") =>
              /\ cell_value' = cell_value
              /\ user_fields' = user_fields
              /\ row_tasks' = row_tasks
              /\ cells' = cells]_vars
    /\ [][/\ df' = df
          /\ \A r \in 1..Len(row_tasks) :
                 Len(row_tasks') >= r /\ row_tasks'[r] = row_tasks[r]]_vars

\* a row has been processed first and again after a row of other inputs,
\* with a task list that is not empty
C12_Witness ==
    /\ fpc = "returned"
    /\ Len(row_tasks) = 3
    /\ SameInputs(1, 3)
    /\ ~SameInputs(1, 2)
    /\ row_tasks[3] # <<>>
    /\ row_tasks[2] # <<>>

\* C19: every task of every processed row is in the column of its rank:
\* column k of row r holds the k-th task of the row for every k up to the
\* length of its task list, beyond ten as well.
C19_EveryTaskWritten ==
    fpc \in {"rows", "returned"} =>
        \A r \in 1..Len(row_tasks) :
            \A k \in 1..Len(row_tasks[r]) :
                k \in columns /\ cells[r][k] = row_tasks[r][k]

\* a row of more than ten tasks has been written
C19_Witness ==
    /\ fpc = "returned"
    /\ \E r \in 1..Len(row_tasks) :
           /\ Len(row_tasks[r]) > 10
           /\ cells[r][11] = row_tasks[r][11]

\* C20: in the frame returned, every task column beyond the length of the
\* task list of a row holds the empty string in that row.
C20_UnusedSlotsEmpty ==
    fpc = "returned" =>
        \A r \in 1..Len(row_tasks) :
            \A k \in columns :
                k > Len(row_tasks[r]) => cells[r][k] = <<>>

\* the tokens with their leading and trailing punctuation and then their
\* blanks removed, without the empty and the repeated results
RECURSIVE StripAndDedupe(_, _)
StripAndDedupe(tokens, acc) ==
    IF tokens = <<>> THEN acc
    ELSE LET task == strip(StripChars(Head(tokens), PunctuationChars))
         IN  StripAndDedupe(Tail(tokens),
                            IF task # <<>> /\ ~InList(task, acc)
                            THEN Append(acc, task) ELSE acc)

\* C22: the list returned by split_tasks is the composition, in this order,
\* of: exclusion and deduplication of the main tokens, deduplication of the
\* bracket contents, concatenation, suppression, and last punctuation
\* stripping with deduplication; exclusion and suppression see the tokens
\* with their punctuation.
C22_StageOrder ==
    pc = "done" =>
        LET main == FirstOccurrences(RawMainTokens, user_fields, <<>>)
            paren == FirstOccurrences(RawParenTokens, {}, <<>>)
            kept == ScanMachine(main \o paren, 1, "SCANNING")
        IN  /\ main_tasks = main
            /\ paren_tasks = paren
            /\ combined_tasks = main \o paren
            /\ final_filtered_tasks = kept
            /\ final_tasks = StripAndDedupe(kept, <<>>)

\* a token has passed the exclusion with its punctuation and is returned,
\* stripped, as an excluded value
C22_Witness ==
    /\ pc = "done"
    /\ \E k \in 1..Len(final_tasks) : final_tasks[k] \in user_fields
    /\ Len(final_filtered_tasks) < Len(combined_tasks)

\* C23: no task of the list returned by split_tasks begins or ends with a
\* character of the stripped punctuation set.
C23_NoPunctuationAtEnds ==
    pc = "done" =>
        \A k \in 1..Len(final_tasks) :
            /\ final_tasks[k] # <<>>
            /\ final_tasks[k][1] \notin PunctuationChars
            /\ final_tasks[k][Len(final_tasks[k])] \notin PunctuationChars

\* C25: the candidate spans of the stack scan are laminar: two of them are
\* disjoint or one is strictly inside the other, none shares a start or an
\* end with another, each has brackets of one style at its ends; and the
\* spans selected are exactly the candidates inside no other candidate.
C25_Laminar ==
    /\ \A a, b \in 1..Len(matches) :
           a # b =>
               /\ matches[a][1] # matches[b][1]
               /\ matches[a][2] # matches[b][2]
               /\ \/ matches[a][2] < matches[b][1]
                  \/ matches[b][2] < matches[a][1]
                  \/ Inside(matches[a], matches[b])
                  \/ Inside(matches[b], matches[a])
    /\ \A a \in 1..Len(matches) :
           /\ matches[a][1] < matches[a][2]
           /\ closing_brackets(text[matches[a][2] + 1]) = text[matches[a][1] + 1]
    /\ pc \in {"tasks", "suppress", "final", "done"} =>
           {top_level_matches[k] : k \in 1..Len(top_level_matches)}
               = {matches[a] : a \in {c \in 1..Len(matches) :
                      ~\E b \in 1..Len(matches) : Inside(matches[c], matches[b])}}

\* of three candidates, one inside another, two have been selected
C25_Witness ==
    /\ pc = "done"
    /\ Len(matches) = 3
    /\ Len(top_level_matches) = 2

\* C26: every task of the list returned by split_tasks is a contiguous part
\* of the normalized text.
C26_TasksAreSubstrings ==
    pc = "done" =>
        \A k \in 1..Len(final_tasks) : IsSubstring(final_tasks[k], text)

\* a task has come from a main text on either side of a removed span
C26_Witness ==
    /\ pc = "done"
    /\ top_level_matches # <<>>
    /\ \E k \in 1..Len(top_level_matches) :
           /\ top_level_matches[k][1] > 0
           /\ top_level_matches[k][2] < Len(text) - 1
    /\ main_tasks # <<>>
    /\ final_tasks # <<>>

\* the content of row r is that of row q followed by one bracket pair with
\* a content that is not empty and holds no bracket-like character, and the
\* content of row q holds no closing bracket, hence no bracket pair
FollowedByPair(q, r) ==
    LET t == df[q].content
        u == df[r].content
    IN  /\ t # NaN /\ u # NaN
        /\ UserFields(df[q]) = UserFields(df[r])
        /\ \A k \in 1..Len(t) : closing_brackets(t[k]) = "none"
        /\ Len(u) > Len(t) + 2
        /\ SubSeq(u, 1, Len(t)) = t
        /\ u[Len(t) + 1] = "("
        /\ u[Len(u)] = ")"
        /\ \A k \in (Len(t) + 2)..(Len(u) - 1) : u[k] \notin BracketLikeChars

\* C24: the tasks that come from the main text do not depend on a bracket
\* pair after it: when the content of a row is that of another row followed
\* by "(c)", its task list begins with the task list of the other row and
\* has at most the task of c in addition.
C24_MainTasksUnaffected ==
    \A q, r \in 1..Len(row_tasks) :
        FollowedByPair(q, r) =>
            /\ Len(row_tasks[r]) >= Len(row_tasks[q])
            /\ Len(row_tasks[r]) <= Len(row_tasks[q]) + 1
            /\ SubSeq(row_tasks[r], 1, Len(row_tasks[q])) = row_tasks[q]

\* how many rows of rows are row
CountIn(row, rows) == Cardinality({k \in 1..Len(rows) : rows[k] = row})

\* the row of the existing file is one the merge has to keep: positive work
\* hours, a year and a month, and a year-month that is not in the new data
KeptExisting(row) ==
    /\ row.hours[1] = "number" /\ row.hours[2] > 0
    /\ row.year[1] = "number"
    /\ row.month[1] = "number"
    /\ \A k \in 1..Len(new_data_df) :
           ~(new_data_df[k].year = row.year /\ new_data_df[k].month = row.month)

\* C21: given an existing file, the result of merge_effort_data holds, as
\* many times as they occur, the rows of the new data and the rows of the
\* existing file that are clean and whose year-month is not in the new data,
\* and nothing else; so no existing row of a year-month of the new data.
C21_MergeOverwrites ==
    (mpc = "returned" /\ existing_file # NoFile) =>
        /\ \A row \in ExistingRows \cup NewRows
                      \cup {merged_df[k] : k \in 1..Len(merged_df)} :
               CountIn(row, merged_df)
                   = CountIn(row, new_data_df)
                     + (IF row \in ExistingRows /\ KeptExisting(row)
                        THEN CountIn(row, existing_file.rows) ELSE 0)
        /\ \A k \in 1..Len(merged_df) :
               merged_df[k].name = "a" => KeptExisting(merged_df[k])

\* an existing row of a year-month of the new data has been left out and
\* another existing row has been kept
C21_Witness ==
    /\ mpc = "returned"
    /\ existing_file # NoFile
    /\ \E k \in 1..Len(existing_file.rows) :
           /\ ValidRow(existing_file.rows[k])
           /\ ~KeptExisting(existing_file.rows[k])
    /\ \E k \in 1..Len(merged_df) : merged_df[k].name = "a"
    /\ new_data_df # <<>>

====
